---- MODULE Spec2Model ----
(***************************************************************************)
(* A model of the protocol engine of ppproto:                              *)
(*   - pppos/frame_reader.rs : FrameReader (HDLC de-framing, FCS check)    *)
(*   - options.rs            : StateMachine (option negotiation FSM)       *)
(* Bytes are integers 0..255, slices are sequences, the caller's           *)
(* destination buffer is a function 0..BufLen-1 -> byte.                   *)
(***************************************************************************)
EXTENDS Integers, Sequences, FiniteSets, TLC

\* ------------------------------------------------------------------------
\* Bounds of the model
\* ------------------------------------------------------------------------
\* length of the destination buffer the caller hands to consume
BufLen == 12
\* number of words a transport stream is concatenated from
MaxWords == 2
\* largest partial chunk a driver submits (it may also submit all that is left)
MaxChunk == 2
\* longest data field of a packet that is encoded and decoded again
MaxData == 2
\* most options in a received packet
MaxOpts == 2
\* the identifier counter up to which the state machine is driven
MaxId == 4
\* the identifier counter a long-running machine is picked up at
WrapStart == 254

\* ------------------------------------------------------------------------
\* Bytes and bit operations
\* ------------------------------------------------------------------------
None == "None"

RECURSIVE Xor(_, _)
\* bitwise exclusive or of two naturals (Rust's ^)
Xor(a, b) ==
    IF a = 0 THEN b
    ELSE IF b = 0 THEN a
    ELSE (((a % 2) + (b % 2)) % 2) + (2 * Xor(a \div 2, b \div 2))

RECURSIVE CrcBits(_, _)
\* n rounds of the reflected polynomial 0x8408 (x^16 + x^12 + x^5 + 1)
CrcBits(c, n) ==
    IF n = 0 THEN c
    ELSE CrcBits(IF (c % 2) = 1 THEN Xor(c \div 2, 33800) ELSE c \div 2, n - 1)

\* the FCS-16 lookup table of RFC 1662
CrcTab == [i \in 0..255 |-> CrcBits(i, 8)]

RECURSIVE crc16(_, _)
\* crc16(initial register, bytes): the RFC 1662 frame check sequence
crc16(crc, bytes) ==
    IF bytes = <<>> THEN crc
    ELSE crc16(Xor(crc \div 256, CrcTab[Xor(crc % 256, Head(bytes))]), Tail(bytes))

\* buf[lo..hi) of a 0-indexed buffer, as a sequence
Slice(b, lo, hi) == [k \in 1..(IF hi > lo THEN hi - lo ELSE 0) |-> b[lo + k - 1]]

RECURSIVE Concat(_)
Concat(ss) == IF ss = <<>> THEN <<>> ELSE Head(ss) \o Concat(Tail(ss))

Min(a, b) == IF a < b THEN a ELSE b

\* ------------------------------------------------------------------------
\* State
\* ------------------------------------------------------------------------
VARIABLES
    fr,      \* the FrameReader: [state, escape, len]
    buf,     \* the destination buffer passed to consume
    stream,  \* the bytes the transport delivers
    pos,     \* how many bytes of stream consume has taken
    data,    \* the slice passed to the last consume call
    ret,     \* what the last consume call returned
    rcv,     \* what the last receive call returned: None or <<start, end>>
    op,      \* the last call: "new", "consume" or "receive"
    frames,  \* the frames retrieved so far: [range, payload]
    sent,    \* the frame content a writer encoded into stream (<<>> if none)
    sm,      \* the StateMachine: [id, state, proto]
    pkt,     \* the packet passed to the last handle call
    out,     \* the frames the last call wrote to the frame writer, in order
    res,     \* how the last call ended: "Ok", "TooShort" or "panic"
    calls,   \* the Protocol callbacks the last call made, in order
    call,    \* the last call: "new", "open", "close" or "handle"
    hist     \* what an observer of the link recorded: [lastReply, ackSeen]

frVars == <<fr, buf, stream, pos, data, ret, rcv, op, frames, sent>>
smVars == <<sm, pkt, out, res, calls, call, hist>>
vars == <<fr, buf, stream, pos, data, ret, rcv, op, frames, sent,
          sm, pkt, out, res, calls, call, hist>>

\* ------------------------------------------------------------------------
\* FrameReader (pppos/frame_reader.rs)
\* ------------------------------------------------------------------------
\* FrameReader::new
NewFrameReader == [state |-> "Start", escape |-> FALSE, len |-> 0]

\* mutant: the closing flag accepts a frame without checking its FCS
FrameOkNoCrc(r, b) ==
    /\ r.len >= 3
    /\ b[0] = 3

\* the acceptance test made at the closing flag
FrameOk(r, b) ==
    /\ r.len >= 3
    /\ b[0] = 3
    /\ crc16(255, Slice(b, 0, r.len)) = 61624

\* mutant: the byte after an escape byte is stored as it came
UnescapeNoXor(r, byte) == byte

\* the data byte as it is stored: XORed with 0x20 after an escape byte
Unescape(r, byte) == IF r.escape THEN Xor(byte, 32) ELSE byte

\* mutant: the overflow test allows one byte more than the buffer holds
BufSizePlusOne(b) == Cardinality(DOMAIN b) + 1

\* buf.len()
BufSize(b) == Cardinality(DOMAIN b)

\* one iteration of consume's loop, for a reader that is not Complete
\* (len == usize::MAX cannot happen with a buffer of BufLen bytes)
ConsumeByte(r, b, byte) ==
    CASE r.state = "Start" ->
            [fr |-> [r EXCEPT !.state = IF byte = 126 THEN "Address" ELSE "Start"],
             buf |-> b]
      [] r.state = "Address" ->
            [fr |-> [r EXCEPT !.state = IF byte = 255 THEN "Data"
                                        ELSE IF byte = 126 THEN "Address"
                                        ELSE "Start"],
             buf |-> b]
      [] r.state = "Data" /\ byte = 126 ->
            [fr |-> [r EXCEPT !.state = IF FrameOk(r, b) THEN "Complete" ELSE "Address"],
             buf |-> b]
      [] r.state = "Data" /\ byte = 125 ->
            [fr |-> [r EXCEPT !.escape = TRUE], buf |-> b]
      [] r.state = "Data" /\ byte \notin {125, 126} ->
            LET v == Unescape(r, byte)
                e == [r EXCEPT !.escape = FALSE]
            IN  IF r.len >= BufSize(b)
                THEN [fr |-> [e EXCEPT !.state = "Start", !.len = 0], buf |-> b]
                ELSE [fr |-> [e EXCEPT !.len = r.len + 1],
                      buf |-> [b EXCEPT ![r.len] = v]]

\* mutant: consume counts the byte it refused
CompleteReturnNext(i) == i + 1

\* what consume returns when it meets a Complete reader at input index i
CompleteReturn(i) == i

RECURSIVE ConsumeFrom(_, _, _, _)
\* consume's loop from input index i (0-based) on
ConsumeFrom(r, b, d, i) ==
    IF i >= Len(d) THEN [fr |-> r, buf |-> b, ret |-> Len(d)]
    ELSE IF r.state = "Complete" THEN [fr |-> r, buf |-> b, ret |-> CompleteReturn(i)]
    ELSE LET s == ConsumeByte(r, b, d[i + 1])
         IN  ConsumeFrom(s.fr, s.buf, d, i + 1)

\* mutant: receive hands the frame out and keeps the accumulated length
receiveKeepsLen(r) ==
    IF r.state = "Complete"
    THEN [fr |-> [r EXCEPT !.state = "Address"], range |-> <<1, r.len - 2>>]
    ELSE [fr |-> r, range |-> None]

\* FrameReader::receive
receive(r) ==
    IF r.state = "Complete"
    THEN [fr |-> [r EXCEPT !.len = 0, !.state = "Address"], range |-> <<1, r.len - 2>>]
    ELSE [fr |-> r, range |-> None]

\* mutant: consume drops a frame that waits and goes on scanning
consumeDropsPending(r, b, d) == ConsumeFrom(receive(r).fr, b, d, 0)

\* FrameReader::consume(buf, data)
consume(r, b, d) == ConsumeFrom(r, b, d, 0)

\* ------------------------------------------------------------------------
\* Frame writer and packet writer (transmit side)
\* ------------------------------------------------------------------------
\* one byte as the frame writer emits it; accm: control characters are mapped
Escape(b, accm) ==
    IF b = 126 \/ b = 125 \/ (accm /\ b < 32) THEN <<125, Xor(b, 32)>> ELSE <<b>>

RECURSIVE EscapeAll(_, _)
EscapeAll(bytes, accm) ==
    IF bytes = <<>> THEN <<>>
    ELSE Escape(Head(bytes), accm) \o EscapeAll(Tail(bytes), accm)

\* FrameWriter start / append(content) / finish
EncodeFrame(content, accm) ==
    LET fcs == Xor(crc16(65535, <<255, 3>> \o content), 65535)
    IN  <<126, 255, 3>> \o EscapeAll(content, accm)
           \o EscapeAll(<<fcs % 256, fcs \div 256>>, accm) \o <<126>>

\* PacketWriter::write: protocol field, header (code, identifier, length), body
PacketBytes(protocol, code, id, body) ==
    <<protocol \div 256, protocol % 256, code, id,
      (Len(body) + 4) \div 256, (Len(body) + 4) % 256>> \o body

\* ------------------------------------------------------------------------
\* Transport streams the reader is driven with
\* ------------------------------------------------------------------------
\* 7E FF 03 | 05 | FCS FA 7D (the 7D escaped) | 7E
GoodFrame == <<126, 255, 3, 5, 250, 125, 93, 126>>
\* the same frame sharing its opening flag with the frame before it
GoodTail == <<255, 3, 5, 250, 125, 93, 126>>
\* a frame of one byte
ShortFrame == <<126, 255, 3, 126>>
\* a frame whose FCS is wrong
BadCrcFrame == <<126, 255, 3, 5, 5, 5, 126>>
\* a frame with a correct FCS and the control byte 05
WrongCtlFrame == <<126, 255, 5, 5, 42, 41, 126>>
\* a frame that ends in an escape byte
EscEndFrame == <<126, 255, 3, 125, 126>>
\* a frame longer than the buffer
LongFrame == <<126, 255>> \o [k \in 1..(BufLen + 2) |-> 5] \o <<126>>

BadFrames == {ShortFrame, BadCrcFrame, WrongCtlFrame}

Words ==
    {<<126>>, <<125>>, <<255>>, <<3>>, <<5>>,
     GoodFrame, GoodTail, EscEndFrame, LongFrame} \cup BadFrames

RECURSIVE WordSeqs(_)
WordSeqs(n) ==
    IF n = 0 THEN {<<>>}
    ELSE LET shorter == WordSeqs(n - 1)
         IN  shorter \cup {Append(ws, w) : ws \in shorter, w \in Words}

Streams == {Concat(ws) : ws \in WordSeqs(MaxWords)}

RECURSIVE SeqsUpTo(_, _)
SeqsUpTo(S, n) ==
    IF n = 0 THEN {<<>>}
    ELSE LET shorter == SeqsUpTo(S, n - 1)
         IN  shorter \cup {Append(q, x) : q \in shorter, x \in S}

\* the frame contents (protocol field, packet header, data) that are encoded
Contents ==
    {PacketBytes(49185, code, id, d) :
        code \in {1, 9}, id \in {1, 126}, d \in SeqsUpTo({5, 125, 126}, MaxData)}

\* ------------------------------------------------------------------------
\* Protocol: a link-control-like implementation of the capability interface
\* ------------------------------------------------------------------------
Dropped == "Dropped"

\* the option this protocol asks for, and the value it starts with
OwnCodes == {1}
NewProto == [own |-> [c \in OwnCodes |-> <<5>>]]

\* Protocol::protocol: 0xC021
protocol(pr) == 49185

\* PacketWriter::append_option: option code, option length, option data
OptionBytes(ocode, d) == <<ocode, Len(d) + 2>> \o d

RECURSIVE OwnOptionsFrom(_, _)
OwnOptionsFrom(pr, codes) ==
    IF codes = {} THEN <<>>
    ELSE LET c == CHOOSE x \in codes : \A y \in codes : x <= y
         IN  (IF pr.own[c] = Dropped THEN <<>> ELSE OptionBytes(c, pr.own[c]))
                \o OwnOptionsFrom(pr, codes \ {c})

\* Protocol::own_options: the body of the own Configure-Request
own_options(pr) == OwnOptionsFrom(pr, OwnCodes)

\* Protocol::own_option_nacked: a rejected option is dropped, a nacked one
\* takes the value the peer suggests
own_option_nacked(pr, ocode, d, is_rej) ==
    IF ocode \in OwnCodes
    THEN [pr EXCEPT !.own[ocode] = IF is_rej THEN Dropped ELSE d]
    ELSE pr

\* Protocol::peer_options_start
peer_options_start(pr) == pr

\* Protocol::peer_option_received: option 1 is accepted, option 2 is accepted
\* with the value 09 and nacked with that suggestion otherwise, the rest is
\* rejected
peer_option_received(pr, ocode, d) ==
    IF ocode = 1 THEN [v |-> "Ack"]
    ELSE IF ocode = 2 THEN (IF d = <<9>> THEN [v |-> "Ack"]
                            ELSE [v |-> "Nack", data |-> <<9>>])
    ELSE [v |-> "Rej"]

\* ------------------------------------------------------------------------
\* StateMachine (options.rs)
\* ------------------------------------------------------------------------
\* Code::from(u8): 1 Configure-Request, 2 Configure-Ack, 3 Configure-Nack,
\* 4 Configure-Reject, 5 Terminate-Request, 6 Terminate-Ack, 7 Code-Reject,
\* 8 Protocol-Reject, 9 Echo-Request, 10 Echo-Reply, anything else unknown
CodeFrom(b) == IF b \in 1..10 THEN b ELSE 0

\* pkt[i] of a 0-indexed slice
At(q, i) == q[i + 1]

\* StateMachine::new
NewStateMachine == [id |-> 1, state |-> "Closed", proto |-> NewProto]

\* what a call has done so far: the machine, the frames written, the callbacks
Ctx(m) == [sm |-> m, out |-> <<>>, calls |-> <<>>]

\* mutant: the counter is not advanced
next_idStuck(id) == id

\* mutant: the counter does not wrap at 255
next_idNoWrap(id) == id + 1

\* StateMachine::next_id
next_id(id) == (id + 1) % 256

\* StateMachine::send_configure_request
send_configure_request(x) ==
    LET nid == next_id(x.sm.id)
    IN  [sm |-> [x.sm EXCEPT !.id = nid],
         out |-> Append(x.out, PacketBytes(protocol(x.sm.proto), 1, nid,
                                           own_options(x.sm.proto))),
         calls |-> Append(x.calls, <<"own_options">>)]

\* mutant: the Terminate-Ack carries the machine's own counter
send_terminate_ackOwnId(x, id) ==
    [x EXCEPT !.out = Append(@, PacketBytes(protocol(x.sm.proto), 6, x.sm.id, <<>>))]

\* StateMachine::send_terminate_ack
send_terminate_ack(x, id) ==
    [x EXCEPT !.out = Append(@, PacketBytes(protocol(x.sm.proto), 6, id, <<>>))]

\* mutant: the request is sent back with its code as it came
send_echo_responseKeepsCode(x, q) ==
    [x EXCEPT !.out = Append(@, q)]

\* StateMachine::send_echo_response: the packet with its code overwritten
send_echo_response(x, q) ==
    [x EXCEPT !.out = Append(@, [q EXCEPT ![3] = 10])]

RECURSIVE ParseFrom(_, _)
\* parse_options' loop: the options read before the end or the first error
ParseFrom(rest, acc) ==
    IF Len(rest) = 0 THEN [opts |-> acc, ok |-> TRUE]
    ELSE IF Len(rest) < 2 THEN [opts |-> acc, ok |-> FALSE]
    ELSE LET ocode == rest[1]
             olen == rest[2]
         IN  IF Len(rest) < olen \/ olen < 2 THEN [opts |-> acc, ok |-> FALSE]
             ELSE ParseFrom(SubSeq(rest, olen + 1, Len(rest)),
                            Append(acc, [code |-> ocode,
                                         data |-> SubSeq(rest, 3, olen)]))

\* parse_options: f is called on opts in order; an error follows unless ok
parse_options(q) ==
    IF Len(q) < 6 THEN [opts |-> <<>>, ok |-> FALSE]
    ELSE ParseFrom(SubSeq(q, 7, Len(q)), <<>>)

\* the reply code of a verdict
VerdictCode(v) == IF v.v = "Ack" THEN 2 ELSE IF v.v = "Nack" THEN 3 ELSE 4

\* mutant: a worse verdict does not reset the reply body
ReplyStepNoReset(reply, opt, v) ==
    LET ret_code == VerdictCode(v)
        d == IF v.v = "Nack" THEN v.data ELSE opt.data
        r1 == IF reply.code < ret_code THEN [reply EXCEPT !.code = ret_code]
              ELSE reply
    IN  IF r1.code = ret_code
        THEN [r1 EXCEPT !.body = @ \o OptionBytes(opt.code, d)]
        ELSE r1

\* received_configure_req's closure: one option and its verdict folded into
\* the reply [code, body]
ReplyStep(reply, opt, v) ==
    LET ret_code == VerdictCode(v)
        d == IF v.v = "Nack" THEN v.data ELSE opt.data
        r1 == IF reply.code < ret_code THEN [code |-> ret_code, body |-> <<>>]
              ELSE reply
    IN  IF r1.code = ret_code
        THEN [r1 EXCEPT !.body = @ \o OptionBytes(opt.code, d)]
        ELSE r1

RECURSIVE ReplyFold(_, _, _, _)
ReplyFold(pr, opts, i, reply) ==
    IF i > Len(opts) THEN reply
    ELSE ReplyFold(pr, opts, i + 1,
                   ReplyStep(reply, opts[i],
                             peer_option_received(pr, opts[i].code, opts[i].data)))

\* StateMachine::received_configure_req, for a packet of more than 3 bytes
received_configure_req(x, q) ==
    LET id == At(q, 3)
        parsed == parse_options(q)
        reply == ReplyFold(x.sm.proto, parsed.opts, 1, [code |-> 2, body |-> <<>>])
        seen == x.calls \o <<<<"peer_options_start">>>>
                   \o [k \in 1..Len(parsed.opts) |->
                         <<"peer_option_received", parsed.opts[k].code,
                           parsed.opts[k].data>>]
        x1 == [x EXCEPT !.sm.proto = peer_options_start(@), !.calls = seen]
    IN  IF ~parsed.ok
        THEN [x |-> x1, res |-> "TooShort", acked |-> FALSE]
        ELSE [x |-> [x1 EXCEPT !.out = Append(@, PacketBytes(protocol(x.sm.proto),
                                                             reply.code, id, reply.body))],
              res |-> "Ok", acked |-> reply.code = 2]

\* mutant: an accepted request in AckReceived goes to AckSent
AfterConfigureReqWrongArm(x, acked) ==
    CASE acked /\ x.sm.state = "ReqSent" -> [x EXCEPT !.sm.state = "AckSent"]
      [] acked /\ x.sm.state = "AckReceived" -> [x EXCEPT !.sm.state = "AckSent"]
      [] acked /\ x.sm.state = "AckSent" -> [x EXCEPT !.sm.state = "AckSent"]
      [] acked /\ x.sm.state = "Opened" ->
            [send_configure_request(x) EXCEPT !.sm.state = "AckSent"]
      [] ~acked /\ x.sm.state = "AckSent" -> [x EXCEPT !.sm.state = "ReqSent"]
      [] ~acked /\ x.sm.state = "Opened" ->
            [send_configure_request(x) EXCEPT !.sm.state = "ReqSent"]
      [] OTHER -> x

\* mutant: a refused request in AckSent re-sends the own Configure-Request
AfterConfigureReqResend(x, acked) ==
    CASE acked /\ x.sm.state = "ReqSent" -> [x EXCEPT !.sm.state = "AckSent"]
      [] acked /\ x.sm.state = "AckReceived" -> [x EXCEPT !.sm.state = "Opened"]
      [] acked /\ x.sm.state = "AckSent" -> [x EXCEPT !.sm.state = "AckSent"]
      [] acked /\ x.sm.state = "Opened" ->
            [send_configure_request(x) EXCEPT !.sm.state = "AckSent"]
      [] ~acked /\ x.sm.state = "AckSent" ->
            [send_configure_request(x) EXCEPT !.sm.state = "ReqSent"]
      [] ~acked /\ x.sm.state = "Opened" ->
            [send_configure_request(x) EXCEPT !.sm.state = "ReqSent"]
      [] OTHER -> x

\* mutant: a refused request in AckReceived opens the link all the same
AfterConfigureReqOpensRefused(x, acked) ==
    CASE acked /\ x.sm.state = "ReqSent" -> [x EXCEPT !.sm.state = "AckSent"]
      [] x.sm.state = "AckReceived" -> [x EXCEPT !.sm.state = "Opened"]
      [] acked /\ x.sm.state = "AckSent" -> [x EXCEPT !.sm.state = "AckSent"]
      [] acked /\ x.sm.state = "Opened" ->
            [send_configure_request(x) EXCEPT !.sm.state = "AckSent"]
      [] ~acked /\ x.sm.state = "AckSent" -> [x EXCEPT !.sm.state = "ReqSent"]
      [] ~acked /\ x.sm.state = "Opened" ->
            [send_configure_request(x) EXCEPT !.sm.state = "ReqSent"]
      [] OTHER -> x

\* handle's match on (acked, state) after the reply to a Configure-Request
AfterConfigureReq(x, acked) ==
    CASE acked /\ x.sm.state = "ReqSent" -> [x EXCEPT !.sm.state = "AckSent"]
      [] acked /\ x.sm.state = "AckReceived" -> [x EXCEPT !.sm.state = "Opened"]
      [] acked /\ x.sm.state = "AckSent" -> [x EXCEPT !.sm.state = "AckSent"]
      [] acked /\ x.sm.state = "Opened" ->
            [send_configure_request(x) EXCEPT !.sm.state = "AckSent"]
      [] ~acked /\ x.sm.state = "AckSent" -> [x EXCEPT !.sm.state = "ReqSent"]
      [] ~acked /\ x.sm.state = "Opened" ->
            [send_configure_request(x) EXCEPT !.sm.state = "ReqSent"]
      [] OTHER -> x

RECURSIVE NackFold(_, _, _, _)
\* the own_option_nacked callbacks for the options parse_options read
NackFold(x, opts, i, is_rej) ==
    IF i > Len(opts) THEN x
    ELSE NackFold([x EXCEPT !.sm.proto = own_option_nacked(@, opts[i].code,
                                                           opts[i].data, is_rej),
                            !.calls = Append(@, <<"own_option_nacked", opts[i].code,
                                                  opts[i].data, is_rej>>)],
                  opts, i + 1, is_rej)

\* mutant: the own Configure-Request is built before the callbacks are made
OnNackOrRejEarlyRequest(x, q, code) ==
    LET is_rej == code = 4
        parsed == parse_options(q)
        x0 == send_configure_request(x)
        x1 == NackFold(x0, parsed.opts, 1, is_rej)
    IN  IF ~parsed.ok THEN [x |-> NackFold(x, parsed.opts, 1, is_rej), res |-> "TooShort"]
        ELSE [x |-> [x1 EXCEPT
                        !.sm.state = IF @ = "AckSent" THEN "AckSent" ELSE "ReqSent"],
              res |-> "Ok"]

\* handle's arm for Configure-Nack and Configure-Reject
OnNackOrRej(x, q, code) ==
    LET is_rej == code = 4
        parsed == parse_options(q)
        x1 == NackFold(x, parsed.opts, 1, is_rej)
    IN  IF ~parsed.ok THEN [x |-> x1, res |-> "TooShort"]
        ELSE [x |-> [send_configure_request(x1) EXCEPT
                        !.sm.state = IF @ = "AckSent" THEN "AckSent" ELSE "ReqSent"],
              res |-> "Ok"]

Result(x, r) == [sm |-> x.sm, out |-> x.out, calls |-> x.calls, res |-> r]

\* mutant: a duplicate Configure-Ack in AckReceived is taken as agreement
OnConfigureAckDuplicateOpens(x) ==
    CASE x.sm.state = "ReqSent" -> [x EXCEPT !.sm.state = "AckReceived"]
      [] x.sm.state = "AckSent" -> [x EXCEPT !.sm.state = "Opened"]
      [] x.sm.state = "AckReceived" -> [x EXCEPT !.sm.state = "Opened"]
      [] x.sm.state = "Opened" ->
            [send_configure_request(x) EXCEPT !.sm.state = "ReqSent"]

\* handle's arms for Configure-Ack in the four states that are not Closed
OnConfigureAck(x) ==
    CASE x.sm.state = "ReqSent" -> [x EXCEPT !.sm.state = "AckReceived"]
      [] x.sm.state = "AckSent" -> [x EXCEPT !.sm.state = "Opened"]
      [] x.sm.state \in {"AckReceived", "Opened"} ->
            [send_configure_request(x) EXCEPT !.sm.state = "ReqSent"]

\* mutant: whatever is not expected is answered with a Terminate-Ack
UnexpectedTerminateAck(x, id) == send_terminate_ack(x, id)

\* handle's arms that only log: Echo-Request outside Opened, and the last arm
Unexpected(x, id) == x

\* handle's match on (code, state), on the packet cut to its declared length
Dispatch(x, q, code, id) ==
    CASE code = 9 /\ x.sm.state = "Opened" ->
            IF Len(q) <= 2 THEN Result(x, "panic")
            ELSE Result(send_echo_response(x, q), "Ok")
      [] code = 9 /\ x.sm.state # "Opened" -> Result(Unexpected(x, id), "Ok")
      [] code # 9 /\ x.sm.state = "Closed" -> Result(send_terminate_ack(x, id), "Ok")
      [] code = 1 /\ x.sm.state # "Closed" ->
            IF Len(q) <= 3 THEN Result(x, "panic")
            ELSE LET r == received_configure_req(x, q)
                 IN  IF r.res # "Ok" THEN Result(r.x, r.res)
                     ELSE Result(AfterConfigureReq(r.x, r.acked), "Ok")
      [] code = 2 /\ x.sm.state # "Closed" -> Result(OnConfigureAck(x), "Ok")
      [] code \in {3, 4} /\ x.sm.state # "Closed" ->
            LET r == OnNackOrRej(x, q, code) IN Result(r.x, r.res)
      [] OTHER -> Result(Unexpected(x, id), "Ok")

\* StateMachine::handle
handle(m, q) ==
    IF Len(q) < 6 THEN Result(Ctx(m), "TooShort")
    ELSE LET code == CodeFrom(At(q, 2))
             id == At(q, 3)
             len == At(q, 4) * 256 + At(q, 5)
         IN  IF len + 2 > Len(q) THEN Result(Ctx(m), "TooShort")
             ELSE Dispatch(Ctx(m), SubSeq(q, 1, len + 2), code, id)

\* StateMachine::open
open(m) ==
    IF m.state = "Closed"
    THEN Result([send_configure_request(Ctx(m)) EXCEPT !.sm.state = "ReqSent"], "Ok")
    ELSE Result(Ctx(m), "Ok")

\* mutant: close announces itself with a Terminate-Request
closeSendsTerminateRequest(m) ==
    LET nid == next_id(m.id)
        x == Ctx([m EXCEPT !.state = "Closed", !.id = nid])
    IN  Result([x EXCEPT !.out = Append(@, PacketBytes(protocol(m.proto), 5, nid, <<>>))],
               "Ok")

\* StateMachine::close
close(m) == Result(Ctx([m EXCEPT !.state = "Closed"]), "Ok")

\* ------------------------------------------------------------------------
\* The packets the state machine is driven with
\* ------------------------------------------------------------------------
\* options a peer sends
PeerOptions ==
    {[code |-> 1, data |-> <<7>>], [code |-> 2, data |-> <<7>>],
     [code |-> 3, data |-> <<>>]}

RECURSIVE OptionsBytes(_)
OptionsBytes(opts) ==
    IF opts = <<>> THEN <<>>
    ELSE OptionBytes(Head(opts).code, Head(opts).data) \o OptionsBytes(Tail(opts))

PeerIds == {2, 7}

\* well-formed packets: option lists under the Configure codes, opaque data
\* under the others (0 and 11 are unknown codes)
GoodPackets ==
    {PacketBytes(49185, c, i, OptionsBytes(os)) :
        c \in {1, 3, 4}, i \in PeerIds, os \in SeqsUpTo(PeerOptions, MaxOpts)}
    \cup {PacketBytes(49185, c, i, d) :
        c \in {0, 2, 5, 6, 7, 8, 9, 10, 11}, i \in PeerIds, d \in {<<>>, <<7>>}}

\* malformed packets: cut short, a declared length beyond the packet or
\* below the header, an option of length 1 or running past the end
BadPackets ==
    {<<192, 33, c, 2, 0>> : c \in {1, 9}}
    \cup {<<192, 33, c, 2, 0, 9, 1, 3, 7>> : c \in {1, 3, 9}}
    \cup {<<192, 33, c, 2, 0, n, 1, 3, 7>> : c \in {1, 2, 3, 9}, n \in 0..3}
    \cup {<<192, 33, c, 2, 0, 9, 1, 3, 7, 2, 1>> : c \in {1, 3, 4}}
    \cup {<<192, 33, c, 2, 0, 9, 1, 3, 7, 2, 5>> : c \in {1, 3, 4}}

\* well-formed packets followed by two bytes their length does not count
PaddedPackets ==
    {PacketBytes(49185, c, i, <<7>>) \o <<8, 8>> : c \in {6, 9}, i \in PeerIds}

Packets == GoodPackets \cup BadPackets \cup PaddedPackets

\* nothing was answered and no Configure-Ack came in
NoHistory == [lastReply |-> 0, ackSeen |-> FALSE]

\* the record after call c with packet q on machine m returned r: lastReply is
\* the code of the last frame written in answer to a Configure-Request of
\* the peer; ackSeen says that a Configure-Ack passed handle's length checks
\* since open() last took the machine out of Closed
History(h, m, c, q, r) ==
    LET taken == c = "handle" /\ Len(q) >= 6 /\ q[5] * 256 + q[6] + 2 <= Len(q)
    IN  [lastReply |-> IF taken /\ CodeFrom(q[3]) = 1 /\ r.out # <<>>
                       THEN r.out[1][3]
                       ELSE h.lastReply,
         ackSeen |-> IF c = "open" /\ m.state = "Closed" THEN FALSE
                     ELSE IF taken /\ CodeFrom(q[3]) = 2 THEN TRUE
                     ELSE h.ackSeen]

\* the state machine as constructed and not called
SMIdle ==
    /\ sm = NewStateMachine
    /\ pkt = <<>>
    /\ out = <<>>
    /\ res = "Ok"
    /\ calls = <<>>
    /\ call = "new"
    /\ hist = NoHistory

\* ------------------------------------------------------------------------
\* The driver of the reader: consume the stream in chunks, receive frames
\* ------------------------------------------------------------------------
FRInit ==
    /\ fr = NewFrameReader
    /\ buf = [k \in 0..(BufLen - 1) |-> 0]
    /\ stream \in Streams
    /\ pos = 0
    /\ data = <<>>
    /\ ret = 0
    /\ rcv = None
    /\ op = "new"
    /\ frames = <<>>
    /\ sent = <<>>
    /\ SMIdle

RTInit ==
    /\ fr = NewFrameReader
    /\ buf = [k \in 0..(BufLen - 1) |-> 0]
    /\ sent \in Contents
    /\ \E accm \in BOOLEAN : stream = EncodeFrame(sent, accm)
    /\ pos = 0
    /\ data = <<>>
    /\ ret = 0
    /\ rcv = None
    /\ op = "new"
    /\ frames = <<>>
    /\ SMIdle

ChunkSizes(left) == (1..Min(MaxChunk, left)) \cup {left}

\* the driver submits the next n bytes; what consume leaves is resubmitted later
Consume(n) ==
    /\ pos < Len(stream)
    /\ LET d == SubSeq(stream, pos + 1, pos + n)
           c == consume(fr, buf, d)
       IN  /\ fr' = c.fr
           /\ buf' = c.buf
           /\ data' = d
           /\ ret' = c.ret
           /\ pos' = pos + c.ret
    /\ op' = "consume"
    /\ UNCHANGED <<stream, rcv, frames, sent>>
    /\ UNCHANGED smVars

\* a frame as the caller sees it: the range and the bytes it denotes in buf
Frame(range, b) == [range |-> range, payload |-> Slice(b, range[1], range[2])]

Receive ==
    /\ LET v == receive(fr)
       IN  /\ fr' = v.fr
           /\ rcv' = v.range
           /\ frames' = IF v.range = None THEN frames
                         ELSE Append(frames, Frame(v.range, buf))
    /\ op' = "receive"
    /\ UNCHANGED <<buf, stream, pos, data, ret, sent>>
    /\ UNCHANGED smVars

FRNext ==
    \/ \E n \in ChunkSizes(Len(stream) - pos) : Consume(n)
    \/ Receive

SpecFR == FRInit /\ [][FRNext]_vars
SpecRT == RTInit /\ [][FRNext]_vars

\* the stream is used up and nothing waits to be retrieved
Done == pos = Len(stream) /\ fr.state # "Complete"

\* ------------------------------------------------------------------------
\* The caller of the state machine
\* ------------------------------------------------------------------------
FRIdle ==
    /\ fr = NewFrameReader
    /\ buf = [k \in 0..(BufLen - 1) |-> 0]
    /\ stream = <<>>
    /\ pos = 0
    /\ data = <<>>
    /\ ret = 0
    /\ rcv = None
    /\ op = "new"
    /\ frames = <<>>
    /\ sent = <<>>

SMInit ==
    /\ SMIdle
    /\ FRIdle

\* call c with packet q returned r
Called(r, c, q) ==
    /\ sm' = r.sm
    /\ out' = r.out
    /\ res' = r.res
    /\ calls' = r.calls
    /\ call' = c
    /\ pkt' = q
    /\ UNCHANGED frVars

Returned(r, c, q) == Called(r, c, q) /\ UNCHANGED hist

\* the same call with an observer of the link keeping its record
Observed(r, c, q) == Called(r, c, q) /\ hist' = History(hist, sm, c, q, r)

\* a call that panicked is the last one
Alive == res # "panic" /\ sm.id < MaxId

Open == Alive /\ Returned(open(sm), "open", <<>>)

Close == Alive /\ Returned(close(sm), "close", <<>>)

Handle(q) == Alive /\ Returned(handle(sm, q), "handle", q)

SMNext ==
    \/ Open
    \/ Close
    \/ \E q \in Packets : Handle(q)

SpecSM == SMInit /\ [][SMNext]_vars

\* a machine that was opened and closed until its counter reached WrapStart
SMLongRun ==
    /\ sm = [NewStateMachine EXCEPT !.id = WrapStart]
    /\ pkt = <<>>
    /\ out = <<>>
    /\ res = "Ok"
    /\ calls = <<>>
    /\ call = "close"
    /\ hist = NoHistory

WrapInit ==
    /\ SMIdle \/ SMLongRun
    /\ FRIdle

\* the counter is followed from 1 and from WrapStart through 255 and 0
WrapAlive == res # "panic" /\ (sm.id >= WrapStart \/ sm.id < MaxId - 1)

WrapOpen == WrapAlive /\ Returned(open(sm), "open", <<>>)

WrapClose == WrapAlive /\ Returned(close(sm), "close", <<>>)

WrapHandle(q) == WrapAlive /\ Returned(handle(sm, q), "handle", q)

WrapNext ==
    \/ WrapOpen
    \/ WrapClose
    \/ \E q \in Packets : WrapHandle(q)

SpecWrap == WrapInit /\ [][WrapNext]_vars

\* the state machine under an observer who records the replies it sends to
\* Configure-Requests and the Configure-Acks it receives
HistOpen == Alive /\ Observed(open(sm), "open", <<>>)

HistClose == Alive /\ Observed(close(sm), "close", <<>>)

HistHandle(q) == Alive /\ Observed(handle(sm, q), "handle", q)

HistNext ==
    \/ HistOpen
    \/ HistClose
    \/ \E q \in Packets : HistHandle(q)

SpecHist == SMInit /\ [][HistNext]_vars

\* ------------------------------------------------------------------------
\* Claims about the frame reader
\* ------------------------------------------------------------------------
\* C1: backpressure. A consume call on a Complete reader returns 0 and leaves
\* the reader, the buffer and the stream position as they are; the call that
\* completes a frame returns the index after the closing flag and has done no
\* more than consuming the input up to that flag does.
C1_Backpressure ==
    [][(op' = "consume") =>
        /\ (fr.state = "Complete") =>
              (ret' = 0 /\ fr' = fr /\ buf' = buf /\ pos' = pos)
        /\ (fr.state # "Complete" /\ fr'.state = "Complete") =>
              /\ ret' >= 1
              /\ data'[ret'] = 126
              /\ \A k \in 1..(ret' - 1) :
                    consume(fr, buf, SubSeq(data', 1, k)).fr.state # "Complete"
              /\ consume(fr, buf, SubSeq(data', 1, ret')) =
                    [fr |-> fr', buf |-> buf', ret |-> ret']
      ]_vars

\* C1 witness: a consume call with input, made while a frame waits, returned 0
C1_Witness ==
    op = "consume" /\ fr.state = "Complete" /\ ret = 0 /\ Len(data) > 0

\* C2: whenever receive returns a range, the accumulated bytes buf[0..len) are
\* at least 3, start with the control byte 0x03 and have the FCS residual
\* 0xF0B8, and the range is [1, len-2).
C2_OnlyValidFrames ==
    [][(op' = "receive" /\ rcv' # None) =>
        /\ fr.len >= 3
        /\ buf[0] = 3
        /\ crc16(255, Slice(buf, 0, fr.len)) = 61624
        /\ rcv' = <<1, fr.len - 2>>
      ]_vars

\* C2 witness: receive returned a frame from a stream that also held a
\* candidate frame failing the test
C2_Witness ==
    /\ op = "receive" /\ rcv # None
    /\ \E bad \in BadFrames : \E k \in 1..(Len(stream) - Len(bad) + 1) :
          SubSeq(stream, k, k + Len(bad) - 1) = bad

RECURSIVE OneByteRun(_, _, _, _, _)
\* the driver that feeds the stream one byte at a time and calls receive
\* after every consume: the frames it retrieves from input index i on
OneByteRun(r, b, s, i, acc) ==
    IF i >= Len(s) THEN acc
    ELSE LET c == consume(r, b, <<s[i + 1]>>)
             v == receive(c.fr)
         IN  OneByteRun(v.fr, c.buf, s, i + c.ret,
                        IF v.range = None THEN acc
                        ELSE Append(acc, Frame(v.range, c.buf)))

OneByteFrames(s) ==
    OneByteRun(NewFrameReader, [k \in 0..(BufLen - 1) |-> 0], s, 0, <<>>)

\* C3: chunking-independence. However the stream is cut into chunks (all at
\* once included), the frames retrieved when it is used up are those of the
\* byte-at-a-time driver: same ranges, same payload bytes, same order.
C3_ChunkingIndependent ==
    Done => frames = OneByteFrames(stream)

\* C3 witness: two frames were retrieved and the second completed inside a
\* chunk submitted whole
C3_Witness ==
    Done /\ Len(frames) = 2 /\ op = "receive" /\ Len(data) > MaxChunk

\* C4: round trip. The bytes the writers emit for a packet, fed to a fresh
\* reader, yield exactly one frame, whose range holds the protocol field, the
\* packet header and the data unchanged.
C4_RoundTrip ==
    (Done /\ sent # <<>>) =>
        frames = << [range |-> <<1, 1 + Len(sent)>>, payload |-> sent] >>

\* C4 witness: a packet whose data holds both 0x7E and 0x7D came back
C4_Witness ==
    /\ Done /\ Len(frames) = 1 /\ Len(sent) = 6 + MaxData
    /\ \E i, j \in 7..Len(sent) : sent[i] = 126 /\ sent[j] = 125

\* C5: a candidate frame that fails validation is dropped with its bytes, so
\* the well-formed frame that follows it is surfaced with its own payload.
C5_BadFrameDropped ==
    \A bad \in BadFrames :
        (stream = bad \o GoodTail /\ Done) =>
            frames = << [range |-> <<1, 2>>, payload |-> <<5>>] >>

\* ------------------------------------------------------------------------
\* Claims about the negotiation state machine
\* ------------------------------------------------------------------------
\* the packet passes handle's two length checks
WellFramed(q) == Len(q) >= 6 /\ q[5] * 256 + q[6] + 2 <= Len(q)

\* the packet cut to its declared length
Cut(q) == SubSeq(q, 1, q[5] * 256 + q[6] + 2)

\* a well-framed packet whose option list parses to its end
WellFormed(q) == WellFramed(q) /\ parse_options(Cut(q)).ok

\* the options of a well-formed packet and the verdicts the protocol gives
OptsOf(q) == parse_options(Cut(q)).opts
VerdictsOf(pr, q) ==
    [k \in 1..Len(OptsOf(q)) |->
        peer_option_received(pr, OptsOf(q)[k].code, OptsOf(q)[k].data).v]

\* the own Configure-Request with identifier id, as it appears on the wire
OwnRequest(pr, id) ==
    <<192, 33, 1, id, 0, 4 + Len(own_options(pr))>> \o own_options(pr)

\* C6: on a machine in Closed with counter 1, open() moves to ReqSent and
\* emits exactly one packet: Configure-Request, protocol C021, identifier 2,
\* body the protocol's own options.
C6_OpenSendsRequest ==
    [][(call' = "open" /\ sm.state = "Closed" /\ sm.id = 1) =>
        /\ sm'.state = "ReqSent"
        /\ res' = "Ok"
        /\ out' = << OwnRequest(sm.proto, 2) >>
      ]_vars

\* C6 witness: open() was called on the new machine
C6_Witness ==
    call = "open" /\ sm.state = "ReqSent" /\ sm.id = 2 /\ out = << <<192, 33, 1, 2, 0, 7, 1, 3, 5>> >>

\* C7: in Closed, a well-framed packet other than Echo-Request is answered
\* with one Terminate-Ack carrying its identifier and no body, an Echo-Request
\* with nothing; the state stays Closed and the counter is unchanged.
C7_ClosedRepliesTerminateAck ==
    [][(call' = "handle" /\ sm.state = "Closed" /\ WellFramed(pkt')) =>
        /\ res' = "Ok"
        /\ sm'.state = "Closed"
        /\ sm'.id = sm.id
        /\ out' = IF pkt'[3] = 9 THEN <<>>
                  ELSE << <<192, 33, 6, pkt'[4], 0, 4>> >>
      ]_vars

\* C7 witness: a Terminate-Ack went out with a peer identifier that is not
\* the machine's counter
C7_Witness ==
    /\ call = "handle" /\ sm.state = "Closed" /\ sm.id # pkt[4]
    /\ out = << <<192, 33, 6, pkt[4], 0, 4>> >>

\* the state after a Configure-Request, by the table of the specification
C8_Next(state, accepted) ==
    IF accepted
    THEN (IF state = "AckReceived" THEN "Opened" ELSE "AckSent")
    ELSE (IF state \in {"AckSent", "Opened"} THEN "ReqSent" ELSE state)

\* C8: a well-formed Configure-Request in a non-Closed state is answered
\* first (Configure-Ack exactly when every option is acked), in Opened the
\* own Configure-Request follows, and the state moves by the table.
C8_ConfigureReqTransitions ==
    [][(call' = "handle" /\ sm.state # "Closed" /\ WellFormed(pkt') /\ pkt'[3] = 1) =>
        LET accepted == \A k \in 1..Len(OptsOf(pkt')) : VerdictsOf(sm.proto, pkt')[k] = "Ack"
        IN  /\ res' = "Ok"
            /\ sm'.state = C8_Next(sm.state, accepted)
            /\ Len(out') = IF sm.state = "Opened" THEN 2 ELSE 1
            /\ out'[1][4] = pkt'[4]
            /\ (out'[1][3] = 2) <=> accepted
            /\ out'[1][3] \in {2, 3, 4}
            /\ sm.state = "Opened" => out'[2] = OwnRequest(sm.proto, (sm.id + 1) % 256)
      ]_vars

\* C8 witness: an accepted request in Opened was answered, the own request
\* re-sent, and the state is AckSent
C8_Witness ==
    /\ call = "handle" /\ sm.state = "AckSent" /\ Len(out) = 2
    /\ out[1][3] = 2 /\ out[2][3] = 1

\* the worst verdict of a list, Ack < Nack < Rej, as a reply code
C9_Worst(vs) ==
    IF \E k \in DOMAIN vs : vs[k] = "Rej" THEN 4
    ELSE IF \E k \in DOMAIN vs : vs[k] = "Nack" THEN 3
    ELSE 2

\* the options whose verdict is the worst one, in order, as reply bytes
C9_Body(pr, q) ==
    LET vs == VerdictsOf(pr, q)
        w == C9_Worst(vs)
    IN  Concat([k \in 1..Len(vs) |->
                  IF vs[k] = "Rej" /\ w = 4 THEN OptionBytes(OptsOf(q)[k].code, OptsOf(q)[k].data)
                  ELSE IF vs[k] = "Nack" /\ w = 3
                       THEN OptionBytes(OptsOf(q)[k].code,
                                        peer_option_received(pr, OptsOf(q)[k].code,
                                                             OptsOf(q)[k].data).data)
                  ELSE IF vs[k] = "Ack" /\ w = 2
                       THEN OptionBytes(OptsOf(q)[k].code, OptsOf(q)[k].data)
                  ELSE <<>>])

\* C9: the reply to a peer Configure-Request has the worst verdict as its
\* code, the peer's identifier, and as body exactly the options with that
\* verdict in their order; the request is accepted (the state moves as for an
\* accepted request) exactly when the reply is a Configure-Ack.
C9_ReplyIsWorstVerdict ==
    [][(call' = "handle" /\ sm.state # "Closed" /\ WellFormed(pkt') /\ pkt'[3] = 1) =>
        LET w == C9_Worst(VerdictsOf(sm.proto, pkt'))
            body == C9_Body(sm.proto, pkt')
        IN  /\ Len(out') >= 1
            /\ out'[1] = <<192, 33, w, pkt'[4], 0, 4 + Len(body)>> \o body
            /\ (sm'.state = C8_Next(sm.state, TRUE)) <=> (out'[1][3] = 2)
      ]_vars

\* C9 witness: a request offering a nacked option and then a rejected one got
\* a Configure-Reject holding the rejected option alone
C9_Witness ==
    /\ call = "handle" /\ WellFormed(pkt) /\ pkt[3] = 1
    /\ Len(OptsOf(pkt)) = 2 /\ OptsOf(pkt)[1].code = 2 /\ OptsOf(pkt)[2].code = 3
    /\ Len(out) >= 1 /\ out[1] = <<192, 33, 4, pkt[4], 0, 6, 3, 2>>

\* C10 as stated: every handle call emits zero or one packet.
C10_AtMostOnePacket ==
    call = "handle" => Len(out) <= 1

\* C10 amended: a handle call emits at most two packets, and two only for a
\* Configure-Request received in Opened (the reply, then the own
\* Configure-Request); every other call emits zero or one.
C10_AtMostTwoPackets ==
    [][(call' = "handle") =>
        /\ Len(out') <= 2
        /\ Len(out') = 2 =>
              /\ sm.state = "Opened" /\ pkt'[3] = 1
              /\ out'[1][3] \in {2, 3, 4} /\ out'[2][3] = 1
      ]_vars

\* C10 witness: a handle call emitted two packets
C10_Witness ==
    call = "handle" /\ Len(out) = 2 /\ res = "Ok"

\* the code byte and the declared length of a packet of 6 bytes or more
CodeOf(q) == q[3]
DeclaredLen(q) == q[5] * 256 + q[6]

\* a packet is malformed for the machine in the given state: shorter than 6
\* bytes, declared longer than it is, or (not in Closed) a Configure-Request,
\* -Nack or -Reject with an option of length < 2 or running past the end
Malformed(q, state) ==
    \/ Len(q) < 6
    \/ DeclaredLen(q) + 2 > Len(q)
    \/ /\ state # "Closed"
       /\ CodeOf(q) \in {1, 3, 4}
       /\ DeclaredLen(q) >= 4
       /\ ~parse_options(Cut(q)).ok

\* C11: a malformed packet makes handle return TooShort, emit nothing and
\* leave state and counter as they were, and every well-formed packet that
\* follows is handled as if the malformed one had not arrived.
C11_MalformedIsIgnored ==
    [][(call' = "handle" /\ Malformed(pkt', sm.state)) =>
        /\ res' = "TooShort"
        /\ out' = <<>>
        /\ sm'.state = sm.state
        /\ sm'.id = sm.id
        /\ \A q \in GoodPackets :
              LET after == handle(sm', q)
                  plain == handle(sm, q)
              IN  after.out = plain.out /\ after.res = plain.res
                    /\ after.sm.state = plain.sm.state /\ after.sm.id = plain.sm.id
      ]_vars

\* C12: a packet with a malformed option is dropped as a whole: no option
\* callback of the protocol is made for it and the protocol's own options
\* are what they were.
C12_NoCallbackOnMalformed ==
    [][(call' = "handle" /\ sm.state # "Closed" /\ Len(pkt') >= 6
          /\ Malformed(pkt', sm.state)) =>
        /\ sm'.proto = sm.proto
        /\ \A k \in 1..Len(calls') :
              calls'[k][1] \notin {"own_option_nacked", "peer_option_received"}
      ]_vars

\* C13: a Configure-Ack moves ReqSent to AckReceived and AckSent to Opened
\* with nothing emitted; in AckReceived and Opened it re-sends exactly one
\* Configure-Request with the next identifier and moves to ReqSent.
C13_ConfigureAck ==
    [][(call' = "handle" /\ sm.state # "Closed" /\ WellFramed(pkt') /\ CodeOf(pkt') = 2) =>
        /\ res' = "Ok"
        /\ sm.state = "ReqSent" =>
              (sm'.state = "AckReceived" /\ out' = <<>> /\ sm'.id = sm.id)
        /\ sm.state = "AckSent" =>
              (sm'.state = "Opened" /\ out' = <<>> /\ sm'.id = sm.id)
        /\ sm.state \in {"AckReceived", "Opened"} =>
              /\ sm'.state = "ReqSent"
              /\ sm'.id = (sm.id + 1) % 256
              /\ out' = << OwnRequest(sm.proto, (sm.id + 1) % 256) >>
      ]_vars

\* C13 witness: a Configure-Ack arrived in AckReceived and the request was
\* sent again
C13_Witness ==
    /\ call = "handle" /\ WellFramed(pkt) /\ CodeOf(pkt) = 2
    /\ sm.state = "ReqSent" /\ sm.id = 3 /\ Len(out) = 1 /\ out[1][3] = 1

\* the own options after the callbacks for opts: the last option with an own
\* code decides, dropped on a reject, set to the suggested value on a nack
C14_Adjusted(pr, opts, is_rej) ==
    [own |-> [c \in OwnCodes |->
        IF \E k \in 1..Len(opts) : opts[k].code = c
        THEN LET last == CHOOSE k \in 1..Len(opts) :
                            /\ opts[k].code = c
                            /\ \A j \in (k + 1)..Len(opts) : opts[j].code # c
             IN  IF is_rej THEN Dropped ELSE opts[last].data
        ELSE pr.own[c]]]

\* C14: on a well-formed Configure-Nack or -Reject outside Closed,
\* own_option_nacked is called once per option in packet order, is_rej true
\* for a Reject only; then exactly one Configure-Request built from the
\* adjusted options goes out with the next identifier; the state becomes
\* ReqSent, and AckSent stays AckSent.
C14_NackOrReject ==
    [][(call' = "handle" /\ sm.state # "Closed" /\ WellFormed(pkt')
          /\ CodeOf(pkt') \in {3, 4}) =>
        LET opts == OptsOf(pkt')
            is_rej == CodeOf(pkt') = 4
            adjusted == C14_Adjusted(sm.proto, opts, is_rej)
        IN  /\ res' = "Ok"
            /\ calls' = [k \in 1..Len(opts) |->
                           <<"own_option_nacked", opts[k].code, opts[k].data, is_rej>>]
                        \o << <<"own_options">> >>
            /\ sm'.proto = adjusted
            /\ sm'.id = (sm.id + 1) % 256
            /\ out' = << OwnRequest(adjusted, (sm.id + 1) % 256) >>
            /\ sm'.state = IF sm.state = "AckSent" THEN "AckSent" ELSE "ReqSent"
      ]_vars

\* C14 witness: a Configure-Nack of two options changed the own option and
\* the request that went out carries the suggested value
C14_Witness ==
    /\ call = "handle" /\ WellFormed(pkt) /\ CodeOf(pkt) = 3 /\ Len(calls) = 3
    /\ sm.proto.own[1] = <<7>>
    /\ out = << <<192, 33, 1, sm.id, 0, 7, 1, 3, 7>> >>

\* C15: a Configure-Ack whose identifier is not that of the last
\* Configure-Request sent does not advance the negotiation.
C15_AckIdentifierChecked ==
    [][(call' = "handle" /\ WellFramed(pkt') /\ CodeOf(pkt') = 2
          /\ sm.state \in {"ReqSent", "AckSent"} /\ pkt'[4] # sm.id) =>
        sm'.state = sm.state
      ]_vars

\* the Configure-Requests among the frames of a call
C16_Requests(o) == {k \in 1..Len(o) : Len(o[k]) >= 4 /\ o[k][3] = 1}

\* C16: the counter starts at 1; a call that originates a Configure-Request
\* advances the counter by one modulo 256 and the request carries the new
\* value; every other frame carries the peer's identifier and a call without
\* a request leaves the counter alone, close() and a later open() included.
C16_IdentifierCounter ==
    [][(call' \in {"open", "close", "handle"}) =>
        /\ Cardinality(C16_Requests(out')) <= 1
        /\ sm'.id = IF C16_Requests(out') = {} THEN sm.id ELSE (sm.id + 1) % 256
        /\ sm'.id \in 0..255
        /\ \A k \in 1..Len(out') :
              Len(out'[k]) >= 4 =>
                 out'[k][4] = IF k \in C16_Requests(out') THEN sm'.id ELSE pkt'[4]
        /\ call = "new" => sm.id = 1
      ]_vars

\* C16 witness: the request after the one numbered 255 went out numbered 0
C16_Witness ==
    sm.id = 0 /\ out # <<>> /\ out[Len(out)][3] = 1 /\ out[Len(out)][4] = 0

\* C17: outside Closed, a well-framed Terminate-Request, Terminate-Ack,
\* Code-Reject, Protocol-Reject, Echo-Reply or packet of unknown code, and an
\* Echo-Request outside Opened, is ignored: Ok, nothing emitted, state and
\* counter unchanged.
C17_UnexpectedIgnored ==
    [][(call' = "handle" /\ sm.state # "Closed" /\ WellFramed(pkt')
          /\ \/ CodeOf(pkt') \in {5, 6, 7, 8, 10} \cup {0} \cup (11..255)
             \/ CodeOf(pkt') = 9 /\ sm.state # "Opened") =>
        /\ res' = "Ok"
        /\ out' = <<>>
        /\ sm' = sm
      ]_vars

\* C17 witness: a Terminate-Request arrived in Opened and nothing happened
C17_Witness ==
    /\ call = "handle" /\ WellFramed(pkt) /\ CodeOf(pkt) = 5
    /\ sm.state = "Opened" /\ out = <<>> /\ res = "Ok"

\* C18: in Opened an Echo-Request (declared length at least the header) is
\* answered with exactly one frame, the request cut to its declared length
\* with the code byte set to Echo-Reply; state and counter stay.
C18_EchoReply ==
    [][(call' = "handle" /\ sm.state = "Opened" /\ WellFramed(pkt')
          /\ CodeOf(pkt') = 9 /\ DeclaredLen(pkt') >= 4) =>
        /\ res' = "Ok"
        /\ sm' = sm
        /\ Len(out') = 1
        /\ Len(out'[1]) = DeclaredLen(pkt') + 2
        /\ \A k \in 1..Len(out'[1]) :
              out'[1][k] = IF k = 3 THEN 10 ELSE pkt'[k]
      ]_vars

\* C18 witness: an Echo-Request longer than its declared length was answered
C18_Witness ==
    /\ call = "handle" /\ sm.state = "Opened" /\ Len(pkt) = 9
    /\ out = << <<192, 33, 10, pkt[4], 0, 5, 7>> >>

\* C19: receive on a Complete reader with length len returns the range
\* [1, len-2), resets the length to 0 and sets the state to Address; in any
\* other state it returns nothing and changes nothing; so a receive right
\* after a receive returns nothing.
C19_ReceiveOnce ==
    [][(op' = "receive") =>
        /\ fr.state = "Complete" =>
              /\ rcv' = <<1, fr.len - 2>>
              /\ fr' = [fr EXCEPT !.len = 0, !.state = "Address"]
              /\ buf' = buf
              /\ Len(frames') = Len(frames) + 1
        /\ fr.state # "Complete" =>
              /\ rcv' = None
              /\ fr' = fr /\ buf' = buf /\ frames' = frames
        /\ op = "receive" => rcv' = None
      ]_vars

\* C19 witness: the frame was delivered by one receive and the receive after
\* it returned nothing
C19_Witness ==
    /\ stream = GoodFrame /\ pos = Len(stream)
    /\ op = "receive" /\ rcv = None
    /\ frames = << [range |-> <<1, 2>>, payload |-> <<5>>] >>

\* C20: the accumulated length never exceeds the buffer's length and the
\* buffer keeps its BufLen cells; a data byte that arrives when the length
\* equals the buffer's length abandons the frame (length 0, state Start,
\* buffer untouched); nothing of the abandoned frame is surfaced and a frame
\* that follows it is delivered.
C20_Overflow ==
    [][/\ fr'.len <= Cardinality(DOMAIN buf')
       /\ DOMAIN buf' = 0..(BufLen - 1)
       /\ (/\ op' = "consume" /\ Len(data') = 1 /\ fr.state = "Data"
           /\ fr.len = Cardinality(DOMAIN buf) /\ data'[1] \notin {125, 126}) =>
             (fr'.state = "Start" /\ fr'.len = 0 /\ buf' = buf)
       /\ stream = LongFrame => frames' = <<>>
       /\ (stream = LongFrame \o GoodTail /\ pos' = Len(stream) /\ fr'.state # "Complete") =>
             frames' = << [range |-> <<1, 2>>, payload |-> <<5>>] >>
      ]_vars

\* C20 witness: a frame longer than the buffer was abandoned and the frame
\* after it was delivered
C20_Witness ==
    /\ stream = LongFrame \o GoodTail /\ Done
    /\ frames = << [range |-> <<1, 2>>, payload |-> <<5>>] >>

\* C21: handle never aborts: whatever the packet and the state, it returns
\* Ok or an error, also for a packet of 6 bytes or more whose declared
\* length is below the 4-byte header.
C21_NoAbort == res # "panic"

\* C22: the pending-escape flag does not leak into the next frame: in Start,
\* Address and Complete the flag is false.
C22_EscapeCleared ==
    fr.state \in {"Start", "Address", "Complete"} => ~fr.escape

\* C23: whenever the state is Opened, the last reply this machine sent to a
\* Configure-Request of the peer was a Configure-Ack, and a Configure-Ack was
\* received from the peer since the state last left Closed.
C23_OpenedMeansAgreed ==
    sm.state = "Opened" => (hist.lastReply = 2 /\ hist.ackSeen)

\* C23 witness: the link opened on the peer's Configure-Ack, the peer's
\* request having been acknowledged before and the own request sent twice
C23_Witness ==
    /\ sm.state = "Opened" /\ call = "handle" /\ pkt[3] = 2
    /\ hist.lastReply = 2 /\ hist.ackSeen /\ sm.id = 3

\* C24: close() sets the state to Closed in any state, emits nothing and
\* leaves the counter alone; open() outside Closed emits nothing and changes
\* nothing; handle never moves the state into or out of Closed: only open()
\* leaves Closed and only close() enters it.
C24_ClosedBoundary ==
    [][/\ call' = "close" =>
             /\ sm' = [sm EXCEPT !.state = "Closed"]
             /\ out' = <<>>
             /\ res' = "Ok"
       /\ (call' = "open" /\ sm.state # "Closed") =>
             (sm' = sm /\ out' = <<>> /\ res' = "Ok")
       /\ call' = "handle" => ((sm'.state = "Closed") <=> (sm.state = "Closed"))
       /\ (sm.state = "Closed" /\ sm'.state # "Closed") => call' = "open"
       /\ (sm.state # "Closed" /\ sm'.state = "Closed") => call' = "close"
      ]_vars

\* C24 witness: close() after an open(): Closed, nothing sent, counter kept
C24_Witness ==
    /\ call = "close" /\ sm.state = "Closed" /\ sm.id = 2 /\ out = <<>>

====
